---- MODULE Spec2Model ----
(***************************************************************************)
(* Model of symfit/core/minimizers.py: the minimizer class hierarchy, its  *)
(* constructor chain (Python cooperative super() along the MRO), the       *)
(* execute chain of every concrete minimizer up to the call of the         *)
(* external solver, the callbacks of the solver into the wrapped           *)
(* callables, the result record built from the solver's answer, and the    *)
(* static constraint translation scipy_constraints.                        *)
(*                                                                         *)
(* Python values: None is the empty tuple and every other value of a slot  *)
(* that may hold None is a non-empty tuple: Float(t) for a float (an       *)
(* opaque token t: the adapter never computes with one), Callable(n) for a *)
(* user callable, List(l) for a list, <<"wrapped_func", func>> for a       *)
(* closure made by wrap_func. A dict and a keyword-argument mapping are    *)
(* functions; a list or tuple in a slot that never holds None is a plain   *)
(* sequence.                                                               *)
(***************************************************************************)
EXTENDS Integers, Sequences, FiniteSets, TLC

\* ------------------------------------------------------------------ bounds
MaxParams == 2      \* longest parameter list
MaxHeld == 1        \* longest constraint list given to a constructor
MaxCons == 3        \* longest constraint list given to scipy_constraints
MaxOpts == 1        \* most keyword options a caller gives to execute

\* ------------------------------------------------------------ Python values
None == <<>>

Float(token) == <<token>>

Callable(name) == <<name>>

List(l) == <<"list", l>>

Items(list) == list[2]
NoAttr == "<no attribute>"

Min2(a, b) == IF a < b THEN a ELSE b

SeqsUpTo(S, n) == UNION {[1..k -> S] : k \in 0..n}

\* f without the key k (the keyword k bound to a named parameter, the rest
\* collected by **kwargs)
Drop(f, k) == [x \in (DOMAIN f) \ {k} |-> f[x]]

\* f[k] when present, the parameter's default otherwise
Get(f, k, default) == IF k \in DOMAIN f THEN f[k] ELSE default

\* --------------------------------------------------------------- the inputs
\* Parameter objects (symfit.core.argument.Parameter): name, value, min, max;
\* an unset bound is None.
ParameterPool ==
    { [name |-> "a", value |-> 0, min |-> None,   max |-> None],
      [name |-> "b", value |-> 1, min |-> Float("0.0"),  max |-> None],
      [name |-> "c", value |-> 2, min |-> Float("-1.0"),
                                  max |-> Float("3.0")] }

ParameterLists == SeqsUpTo(ParameterPool, MaxParams) \ {<<>>}

\* Constraint objects: a comparison kind and the expression they evaluate.
ConstraintPool ==
    { [constraint_type |-> "Eq", expr |-> "g1"],
      [constraint_type |-> "Ge", expr |-> "g2"],
      [constraint_type |-> "Le", expr |-> "g3"] }

Datas == {"data1", "data2"}

\* trial and solution vectors of the external solver
Values == {0, 1}

Vectors == SeqsUpTo(Values, MaxParams)

\* --------------------------------------------------- the class hierarchy
Classes == {"BFGS", "NelderMead", "SLSQP", "LBFGSB", "MINPACK"}

\* the bases of each class statement (object left out: it is always last)
Bases(c) ==
    CASE c = "BaseMinimizer"         -> <<>>
      [] c = "BoundedMinimizer"      -> <<"BaseMinimizer">>
      [] c = "ConstrainedMinimizer"  -> <<"BaseMinimizer">>
      [] c = "GradientMinimizer"     -> <<"BaseMinimizer">>
      [] c = "ScipyMinimize"         -> <<>>
      [] c = "ScipyGradientMinimize" -> <<"ScipyMinimize", "GradientMinimizer">>
      [] c = "BFGS"                  -> <<"ScipyGradientMinimize">>
      [] c = "SLSQP"                 -> <<"ScipyGradientMinimize",
                                          "ConstrainedMinimizer",
                                          "BoundedMinimizer">>
      [] c = "LBFGSB"                -> <<"ScipyGradientMinimize",
                                          "BoundedMinimizer">>
      [] c = "NelderMead"            -> <<"ScipyMinimize", "BaseMinimizer">>
      [] c = "MINPACK"               -> <<"GradientMinimizer",
                                          "BoundedMinimizer">>

InTail(c, seqs) ==
    \E i \in 1..Len(seqs) : \E j \in 2..Len(seqs[i]) : seqs[i][j] = c

\* the merge step of Python's C3 linearisation
RECURSIVE Merge(_)
Merge(seqs) ==
    LET ne == SelectSeq(seqs, LAMBDA s : s # <<>>)
    IN  IF ne = <<>> THEN <<>>
        ELSE LET k == CHOOSE k \in 1..Len(ne) :
                        /\ ~InTail(ne[k][1], ne)
                        /\ \A j \in 1..(k - 1) : InTail(ne[j][1], ne)
                 h == ne[k][1]
                 rest == [i \in 1..Len(ne) |->
                            IF ne[i][1] = h THEN Tail(ne[i]) ELSE ne[i]]
             IN  <<h>> \o Merge(rest)

\* the method resolution order of class c
RECURSIVE mro(_)
mro(c) ==
    <<c>> \o Merge([i \in 1..Len(Bases(c)) |-> mro(Bases(c)[i])]
                   \o <<Bases(c)>>)

\* ------------------------------------------------------------ wrap_func
wrap_func(self, func) ==
    IF func = None THEN None ELSE <<"wrapped_func", func>>

\* zip(a, b): pairs up to the shorter length
zip(a, b) == [i \in 1..Min2(Len(a), Len(b)) |-> <<a[i], b[i]>>]

\* dict(pairs): one entry per key, the last pair with a key wins
dict(pairs) ==
    [k \in {pairs[i][1] : i \in 1..Len(pairs)} |->
        LET last == CHOOSE i \in 1..Len(pairs) :
                        /\ pairs[i][1] = k
                        /\ \A j \in (i + 1)..Len(pairs) : pairs[j][1] # k
        IN  pairs[last][2]]

\* key2str(d): the same mapping with every key replaced by its string, which
\* for a Parameter is its name
key2str(d) ==
    [n \in {k.name : k \in DOMAIN d} |->
        d[CHOOSE k \in DOMAIN d : k.name = n]]

\* faulty variant: the values are bound to the parameter names in reverse
\* order instead of by position
wrapped_func_misbound(self, w, values) ==
    [func |-> w[2], values |-> values,
     kwargs |-> key2str(dict(zip(self.params,
                    [i \in 1..Len(values) |-> values[Len(values) + 1 - i]])))]

\* the call func(**parameters) that the closure w makes for a trial vector
wrapped_func(self, w, values) ==
    [func |-> w[2], values |-> values,
     kwargs |-> key2str(dict(zip(self.params, values)))]

\* --------------------------------------------------------- the properties
\* faulty variant: the guesses in reverse parameter order
initial_guesses_reversed(self) ==
    [i \in 1..Len(self.params) |->
        self.params[Len(self.params) + 1 - i].value]

initial_guesses(self) == [i \in 1..Len(self.params) |-> self.params[i].value]

\* faulty variant: a parameter without any bound gets no pair
bounds_only_set(self) ==
    SelectSeq([i \in 1..Len(self.params) |->
                    <<self.params[i].min, self.params[i].max>>],
              LAMBDA b : b # <<None, None>>)

bounds(self) ==
    [i \in 1..Len(self.params) |-> <<self.params[i].min, self.params[i].max>>]

\* ------------------------------------------------------ the constructors
\* an object before any __init__ has run
Blank ==
    [objective |-> NoAttr, params |-> NoAttr, absolute_sigma |-> NoAttr,
     constraints |-> NoAttr, jacobian |-> NoAttr,
     wrapped_jacobian |-> NoAttr, wrapped_objective |-> NoAttr]

Raised(self) == [ok |-> FALSE, self |-> self]

\* BaseMinimizer.__init__(self, objective, parameters, absolute_sigma=True):
\* any other keyword is a TypeError
BaseMinimizer_init(self, args, kw) ==
    IF ~(DOMAIN kw \subseteq {"absolute_sigma"}) THEN Raised(self)
    ELSE [ok |-> TRUE,
          self |-> [self EXCEPT !.objective = args.objective,
                                !.params = args.parameters,
                                !.absolute_sigma =
                                    Get(kw, "absolute_sigma", "True")]]

\* the constraints default of ConstrainedMinimizer.__init__
ConstrainedMinimizer_default == None

\* super(...).__init__(*args, **kw) looked up from position i of the MRO m
RECURSIVE super_init(_, _, _, _, _)
super_init(m, i, self, args, kw) ==
    IF i > Len(m) THEN Raised(self)
    ELSE CASE m[i] = "BaseMinimizer" -> BaseMinimizer_init(self, args, kw)
           [] m[i] = "ConstrainedMinimizer" ->
                LET constraints ==
                        Get(kw, "constraints", ConstrainedMinimizer_default)
                    r == super_init(m, i + 1, self, args,
                                    Drop(kw, "constraints"))
                IN  IF ~r.ok THEN r
                    ELSE [r EXCEPT !.self.constraints = constraints]
           [] m[i] = "GradientMinimizer" ->
                LET jacobian == Get(kw, "jacobian", None)
                    r == super_init(m, i + 1, self, args, Drop(kw, "jacobian"))
                IN  IF ~r.ok THEN r
                    ELSE [r EXCEPT !.self.jacobian = jacobian]
           [] m[i] = "ScipyMinimize" ->
                LET s == [self EXCEPT !.constraints = List(<<>>),
                                      !.jacobian = None,
                                      !.wrapped_jacobian = None]
                    r == super_init(m, i + 1, s, args, kw)
                IN  IF ~r.ok THEN r
                    ELSE [r EXCEPT !.self.wrapped_objective =
                                        wrap_func(r.self, r.self.objective)]
           [] m[i] = "ScipyGradientMinimize" ->
                LET r == super_init(m, i + 1, self, args, kw)
                IN  IF ~r.ok THEN r
                    ELSE [r EXCEPT !.self.wrapped_jacobian =
                                        wrap_func(r.self, r.self.jacobian)]
           [] m[i] = "MINPACK" ->
                LET s == [self EXCEPT !.jacobian = None]
                    r == super_init(m, i + 1, s, args, kw)
                IN  IF ~r.ok THEN r
                    ELSE [r EXCEPT !.self.wrapped_objective =
                                        wrap_func(r.self, r.self.objective)]
           \* BoundedMinimizer, BFGS, SLSQP, LBFGSB, NelderMead define no
           \* __init__: the lookup goes on along the MRO
           [] OTHER -> super_init(m, i + 1, self, args, kw)

\* the method resolution order of every concrete class
MRO == [c \in Classes |-> mro(c)]

\* cls(objective, parameters, **kw)
Construct(cls, args, kw) == super_init(MRO[cls], 1, Blank, args, kw)

\* ---------------------------------------------------------- the execute chain
EmptyKw == [k \in {} |-> None]

\* the default that the decorator @keywordonly(tol=1e-9) is given
DefaultTol == "1e-9"

\* @keywordonly(tol=...): a keyword the caller left out gets its default, the
\* others pass through
keywordonly(kw) ==
    IF "tol" \in DOMAIN kw THEN kw ELSE ("tol" :> DefaultTol) @@ kw

NoRequest == [entry |-> "", args |-> <<>>, kwargs |-> EmptyKw]

\* an exception leaves execute before the solver is called
Raise(kind) == [raised |-> kind, request |-> NoRequest]

\* a call f(k1=v1, ..., **rest) is a TypeError when rest repeats a keyword
Repeats(explicit, rest) == (DOMAIN explicit \cap DOMAIN rest) # {}

\* faulty variant: execute translates the stored constraints and raises on a
\* comparison kind that is neither Eq nor Ge
ScipyMinimize_execute_checked(self, kw0) ==
    LET kw == keywordonly(kw0)
        held == self.constraints
        bad == /\ held # None
               /\ \E i \in 1..Len(Items(held)) :
                    /\ "constraint_type" \in DOMAIN Items(held)[i]
                    /\ Items(held)[i].constraint_type \notin {"Eq", "Ge"}
        minimize_options == Drop(Drop(kw, "bounds"), "jacobian")
        explicit == [bounds |-> Get(kw, "bounds", None),
                     constraints |-> held,
                     jac |-> Get(kw, "jacobian", None)]
    IN  IF bad THEN Raise("KeyError")
        ELSE IF Repeats(explicit, minimize_options) THEN Raise("TypeError")
        ELSE [raised |-> "",
              request |-> [entry |-> "minimize",
                           args |-> <<self.wrapped_objective,
                                      initial_guesses(self)>>,
                           kwargs |-> explicit @@ minimize_options]]

\* ScipyMinimize.execute(self, bounds=None, jacobian=None, **minimize_options)
ScipyMinimize_execute(self, kw0) ==
    LET kw == keywordonly(kw0)
        bnds == Get(kw, "bounds", None)
        jacobian == Get(kw, "jacobian", None)
        minimize_options == Drop(Drop(kw, "bounds"), "jacobian")
        explicit == [bounds |-> bnds,
                     constraints |-> self.constraints,
                     jac |-> jacobian]
    IN  IF Repeats(explicit, minimize_options) THEN Raise("TypeError")
        ELSE [raised |-> "",
              request |-> [entry |-> "minimize",
                           args |-> <<self.wrapped_objective,
                                      initial_guesses(self)>>,
                           kwargs |-> explicit @@ minimize_options]]

\* MINPACK.execute(self, **minpack_options)
MINPACK_execute(self, minpack_options) ==
    LET explicit == [x0 |-> initial_guesses(self),
                     bounds |-> bounds(self),
                     full_output |-> "True"]
    IN  IF Repeats(explicit, minpack_options) THEN Raise("TypeError")
        ELSE [raised |-> "",
              request |-> [entry |-> "leastsqbound",
                           args |-> <<self.wrapped_objective>>,
                           kwargs |-> explicit @@ minpack_options]]

\* the keywords each execute adds before it calls super().execute
BFGS_keywords(self) == [method |-> "BFGS"]

NelderMead_keywords(self) == [method |-> "Nelder-Mead"]

SLSQP_keywords(self) == [method |-> "SLSQP", bounds |-> bounds(self)]

\* faulty variant: LBFGSB asks for the method of BFGS
LBFGSB_keywords_wrong_method(self) ==
    [method |-> "BFGS", bounds |-> bounds(self)]

LBFGSB_keywords(self) == [method |-> "L-BFGS-B", bounds |-> bounds(self)]

ScipyGradientMinimize_keywords(self) == [jacobian |-> self.wrapped_jacobian]

\* super(...).execute(**kw) looked up from position i of the MRO m
RECURSIVE super_execute(_, _, _, _)
super_execute(m, i, self, kw) ==
    IF i > Len(m) THEN Raise("AttributeError")
    ELSE LET forward(explicit) ==
                 IF Repeats(explicit, kw) THEN Raise("TypeError")
                 ELSE super_execute(m, i + 1, self, explicit @@ kw)
         IN  CASE m[i] = "BFGS" -> forward(BFGS_keywords(self))
               [] m[i] = "NelderMead" -> forward(NelderMead_keywords(self))
               [] m[i] = "SLSQP" -> forward(SLSQP_keywords(self))
               [] m[i] = "LBFGSB" -> forward(LBFGSB_keywords(self))
               [] m[i] = "ScipyGradientMinimize" ->
                      forward(ScipyGradientMinimize_keywords(self))
               [] m[i] = "ScipyMinimize" -> ScipyMinimize_execute(self, kw)
               [] m[i] = "MINPACK" -> MINPACK_execute(self, kw)
               \* the capability classes define no execute
               [] OTHER -> super_execute(m, i + 1, self, kw)

\* type(self).execute(self, **options)
execute(cls, self, options) == super_execute(MRO[cls], 1, self, options)

\* the result records
\* faulty variant: the evaluation count is reported as the iteration count
fit_results_minimize_nfev(ans) ==
    [popt |-> ans.x,
     pcov |-> None,
     infodic |-> [nfev |-> ans.nfev],
     mesg |-> ans.message,
     ier |-> ans.nfev,
     value |-> ans.fun]

fit_results_minimize(ans) ==
    [popt |-> ans.x,
     pcov |-> None,
     infodic |-> [nfev |-> ans.nfev],
     mesg |-> ans.message,
     ier |-> ans.nit,
     value |-> ans.fun]

\* faulty variant: the covariance line of MINPACK.execute is not commented out
fit_results_minpack_pcov(ans) ==
    [popt |-> ans.popt,
     pcov |-> ans.pcov,
     infodic |-> ans.infodic,
     mesg |-> ans.mesg,
     ier |-> ans.ier]

fit_results_minpack(ans) ==
    [popt |-> ans.popt,
     infodic |-> ans.infodic,
     mesg |-> ans.mesg,
     ier |-> ans.ier]

\* faulty variant: execute stores the solution as the new parameter values
self_after_execute_writeback(self, fit_results) ==
    [self EXCEPT !.params =
        [i \in 1..Len(self.params) |->
            IF i <= Len(fit_results.popt)
            THEN [self.params[i] EXCEPT !.value = fit_results.popt[i]]
            ELSE self.params[i]]]

\* neither execute assigns to an attribute of self
self_after_execute(self, fit_results) == self

\* a call of a wrapped callable assigns to no attribute of self
self_after_call(self, values) == self

\* ------------------------------------------------------- scipy_constraints
\* faulty variant: the two kinds swapped
types_swapped == [Eq |-> "ineq", Ge |-> "eq"]

types == [Eq |-> "eq", Ge |-> "ineq"]

RECURSIVE scipy_constraints_loop(_, _, _, _)
scipy_constraints_loop(constraints, data, key, cons) ==
    IF key > Len(constraints) THEN [raised |-> "", value |-> cons]
    ELSE LET constraint == constraints[key]
         IN  IF constraint.constraint_type \notin DOMAIN types
             THEN [raised |-> "KeyError", value |-> <<>>]
             ELSE scipy_constraints_loop(constraints, data, key + 1,
                     Append(cons,
                            [type |-> types[constraint.constraint_type],
                             fun |-> "fun_lambda",
                             jac |-> "jac_lambda",
                             args |-> <<data, constraint>>]))

\* the translated tuple as value, or raised "KeyError" when the lookup in
\* types raises
scipy_constraints(constraints, data) ==
    scipy_constraints_loop(constraints, data, 1, <<>>)

\* 'fun': lambda p, x, c: c(*(list(x.values()) + list(p)))[0]
fun_lambda(p, x, c) ==
    [evaluates |-> c.expr, data |-> x, p |-> p, component |-> 0]

\* the solver's call entry['fun'](p, *entry['args'])
call_fun(entry, p) == fun_lambda(p, entry.args[1], entry.args[2])

\* ------------------------------------------------------------------ inputs
Supported(cl) ==
    \A i \in 1..Len(cl) : cl[i].constraint_type \in DOMAIN types

\* what a caller may give as constraints=: Constraint objects as they are,
\* or the output of scipy_constraints
HeldConstraints ==
    SeqsUpTo(ConstraintPool, MaxHeld)
    \cup {scipy_constraints(cl, d).value :
            cl \in {c \in SeqsUpTo(ConstraintPool, MaxHeld) : Supported(c)},
            d \in Datas}

ConstructorKeywords ==
    {ck @@ jk :
        ck \in {EmptyKw} \cup {("constraints" :> List(h)) : h \in HeldConstraints},
        jk \in {EmptyKw, ("jacobian" :> Callable("jacobian"))}}

OptionValue(k) ==
    CASE k = "tol" -> "1e-6"
      [] k = "bounds" -> << <<Float("-9.0"), Float("9.0")>> >>
      [] k = "jacobian" -> Callable("caller_jacobian")
      [] k = "method" -> "caller_method"
      [] k = "constraints" -> List(<<>>)
      [] k = "options" -> "caller_options"

OptionKeys == {"tol", "bounds", "jacobian", "method", "constraints", "options"}

Options ==
    {[k \in K |-> OptionValue(k)] :
        K \in {S \in SUBSET OptionKeys : Cardinality(S) <= MaxOpts}}

\* what the external solvers may answer
Outcomes ==
    { [message |-> "Optimization terminated successfully.",
       success |-> "True", nit |-> 3, nfev |-> 7, ier |-> 1],
      [message |-> "Maximum number of iterations has been exceeded.",
       success |-> "False", nit |-> 4, nfev |-> 9, ier |-> 5] }

MinimizeAnswers ==
    {[x |-> x, fun |-> 0, message |-> o.message, success |-> o.success,
      nit |-> o.nit, nfev |-> o.nfev] : x \in Vectors, o \in Outcomes}

LeastsqboundAnswers ==
    {[popt |-> x, pcov |-> None, infodic |-> [nfev |-> o.nfev],
      mesg |-> o.message, ier |-> o.ier] : x \in Vectors, o \in Outcomes}

\* ------------------------------------------------------------------- state
VARIABLES
    cls,            \* the class of the minimizer
    self,           \* its attributes
    self0,          \* its attributes when the constructor returned
    pc,             \* "idle", "solver", "returned", "raised"
    options,        \* the options of the execute call in progress
    request,        \* what the execute call in progress sent to the solver
    solver_calls,   \* solver calls made by the last execute call
    executed,       \* an execute call has returned before
    last_call,      \* the solver's last call of a user callable in this run
    last_ans,       \* the last answer of the solver
    result,         \* the last fit_results
    error,          \* the last exception
    cons_in,        \* scipy_constraints: the constraints given
    cons_data,      \* scipy_constraints: the data given
    cons_called,    \* scipy_constraints has been called
    cons_out        \* scipy_constraints: the outcome

vars == <<cls, self, self0, pc, options, request, solver_calls, executed,
          last_call, last_ans, result, error,
          cons_in, cons_data, cons_called, cons_out>>

cons_vars == <<cons_in, cons_data, cons_called, cons_out>>

NoCall == [func |-> None, values |-> <<>>, kwargs |-> EmptyKw]

Constructed(c, P, kw) ==
    LET r == Construct(c, [objective |-> Callable("objective"),
                           parameters |-> P], kw)
    IN  /\ r.ok
        /\ cls = c
        /\ self = r.self
        /\ self0 = r.self
        /\ pc = "idle"
        /\ options = EmptyKw
        /\ request = NoRequest
        /\ solver_calls = 0
        /\ executed = FALSE
        /\ last_call = NoCall
        /\ last_ans = None
        /\ result = None
        /\ error = ""

Init ==
    /\ \E c \in Classes, P \in ParameterLists, kw \in ConstructorKeywords :
            Constructed(c, P, kw)
    /\ cons_in = <<>>
    /\ cons_data = ""
    /\ cons_called = FALSE
    /\ cons_out = [raised |-> "", value |-> <<>>]

\* minimizer.execute(**opts)
Execute(opts) ==
    /\ pc \in {"idle", "returned", "raised"}
    /\ LET r == execute(cls, self, opts)
       IN  /\ options' = opts
           /\ request' = r.request
           /\ error' = r.raised
           /\ pc' = IF r.raised = "" THEN "solver" ELSE "raised"
           /\ solver_calls' = IF r.raised = "" THEN 1 ELSE 0
    /\ last_call' = NoCall
    /\ last_ans' = None
    /\ result' = None
    /\ UNCHANGED <<cls, self, self0, executed, cons_vars>>

\* the initial vector a request hands to the solver
x0_of(req) ==
    IF req.entry = "minimize" THEN req.args[2] ELSE req.kwargs.x0

\* the callables the solver was handed that are closures of wrap_func
Closures(req) ==
    {req.args[1]}
    \cup (IF req.entry = "minimize" /\ Len(req.kwargs.jac) = 2
          THEN {req.kwargs.jac} ELSE {})

\* the solver evaluates a callable it was handed at a trial vector
SolverEval(values) ==
    /\ pc = "solver"
    /\ Len(values) = Len(x0_of(request))
    /\ \E w \in Closures(request) :
            last_call' = wrapped_func(self, w, values)
    /\ self' = self_after_call(self, values)
    /\ UNCHANGED <<cls, self0, pc, options, request, solver_calls, executed,
                   last_ans, result, error, cons_vars>>

\* the solver returns and execute builds its result
SolverReturn(ans) ==
    /\ pc = "solver"
    /\ ans \in (IF request.entry = "minimize" THEN MinimizeAnswers
                ELSE LeastsqboundAnswers)
    /\ last_ans' = ans
    /\ result' = IF request.entry = "minimize" THEN fit_results_minimize(ans)
                 ELSE fit_results_minpack(ans)
    /\ self' = self_after_execute(self, result')
    /\ pc' = "returned"
    /\ executed' = TRUE
    /\ options' = EmptyKw
    /\ request' = NoRequest
    /\ last_call' = NoCall
    /\ UNCHANGED <<cls, self0, solver_calls, error, cons_vars>>

Next ==
    \/ \E opts \in Options : Execute(opts)
    \/ \E values \in Vectors : SolverEval(values)
    \/ \E ans \in MinimizeAnswers \cup LeastsqboundAnswers : SolverReturn(ans)

Spec == Init /\ [][Next]_vars

\* ------------------------------------- the specification of the translation
InitT ==
    /\ Constructed("SLSQP",
                   <<CHOOSE p \in ParameterPool : p.name = "a">>, EmptyKw)
    /\ cons_in \in SeqsUpTo(ConstraintPool, MaxCons)
    /\ cons_data \in Datas
    /\ cons_called = FALSE
    /\ cons_out = [raised |-> "", value |-> <<>>]

\* ScipyMinimize.scipy_constraints(cons_in, cons_data)
Translate ==
    /\ ~cons_called
    /\ cons_called' = TRUE
    /\ cons_out' = scipy_constraints(cons_in, cons_data)
    /\ UNCHANGED <<cls, self, self0, pc, options, request, solver_calls,
                   executed, last_call, last_ans, result, error,
                   cons_in, cons_data>>

NextT == Translate

SpecT == InitT /\ [][NextT]_vars

\* ------------------------------------------------------------- the claims
Bounded == {"SLSQP", "LBFGSB", "MINPACK"}

Gradient == {"BFGS", "SLSQP", "LBFGSB"}

General == {"BFGS", "NelderMead", "SLSQP", "LBFGSB"}

DistinctNames(P) ==
    \A i, j \in 1..Len(P) : P[i].name = P[j].name => i = j

\* the solution vector of the solver's last answer
Solution == IF cls = "MINPACK" THEN last_ans.popt ELSE last_ans.x

\* C1: the solver is handed the parameter values in parameter order, and the
\* solver's solution is returned as popt as it is, so that a solution as long
\* as the initial vector gives a popt as long as the parameter list.
C1_VectorOrder ==
    /\ pc = "solver" =>
        /\ Len(x0_of(request)) = Len(self.params)
        /\ \A i \in 1..Len(self.params) :
                x0_of(request)[i] = self.params[i].value
    /\ pc = "returned" =>
        /\ result.popt = Solution
        /\ Len(Solution) = Len(self.params) =>
                Len(result.popt) = Len(self.params)

C1_Witness ==
    /\ pc = "returned"
    /\ Len(self.params) = 2
    /\ self.params[1].value > self.params[2].value
    /\ result.popt = <<1, 0>>

\* C2: a wrapped callable calls the user callable with one keyword per
\* parameter, the i-th trial value bound to the name of the i-th parameter of
\* the list given at construction, and changes no attribute of the minimizer;
\* wrapping None gives None.
C2_KeywordCall ==
    /\ self = self0
    /\ cls \in Gradient =>
        /\ self.jacobian = None => self.wrapped_jacobian = None
        /\ self.jacobian # None => self.wrapped_jacobian # None
    /\ self.wrapped_objective # None
    /\ (pc = "solver" /\ last_call # NoCall) =>
        LET P == self0.params
            v == last_call.values
        IN  /\ last_call.func \in {self.objective, self.jacobian}
            /\ (DistinctNames(P) /\ Len(v) = Len(P)) =>
                /\ DOMAIN last_call.kwargs = {P[i].name : i \in 1..Len(P)}
                /\ \A i \in 1..Len(P) : last_call.kwargs[P[i].name] = v[i]

C2_Witness ==
    /\ pc = "solver"
    /\ last_call.func = Callable("objective")
    /\ last_call.values = <<1, 0>>
    /\ Len(self.params) = 2
    /\ DistinctNames(self.params)

\* C3: every solver call of a bounded minimizer carries one (min, max) pair
\* per parameter, in parameter order, an unset bound being None in its pair,
\* whatever the options of the call.
C3_OnePairPerParameter ==
    (pc = "solver" /\ cls \in Bounded) =>
        LET b == request.kwargs.bounds
        IN  /\ Len(b) = Len(self.params)
            /\ \A i \in 1..Len(self.params) :
                    b[i] = <<self.params[i].min, self.params[i].max>>

C3_Witness ==
    /\ pc = "solver"
    /\ cls \in Bounded
    /\ options # EmptyKw
    /\ Len(self.params) = 2
    /\ self.params[1].min = None
    /\ self.params[1].max = None
    /\ self.params[2].max # None

\* C4: scipy_constraints gives one entry per constraint in the same order,
\* "eq" for an equality and "ineq" for a >= constraint, with args (data,
\* constraint i) so that entry i evaluates constraint i; one constraint of
\* another kind makes the whole translation raise.
C4_Translation ==
    cons_called =>
        IF \E i \in 1..Len(cons_in) :
                cons_in[i].constraint_type \notin {"Eq", "Ge"}
        THEN cons_out = [raised |-> "KeyError", value |-> <<>>]
        ELSE /\ cons_out.raised = ""
             /\ Len(cons_out.value) = Len(cons_in)
             /\ \A i \in 1..Len(cons_in) :
                LET entry == cons_out.value[i]
                IN  /\ cons_in[i].constraint_type = "Eq" => entry.type = "eq"
                    /\ cons_in[i].constraint_type = "Ge" => entry.type = "ineq"
                    /\ entry.args = <<cons_data, cons_in[i]>>
                    /\ \A p \in Vectors :
                        /\ call_fun(entry, p).evaluates = cons_in[i].expr
                        /\ call_fun(entry, p).data = cons_data
                        /\ call_fun(entry, p).p = p

C4_Witness ==
    /\ cons_called
    /\ Len(cons_in) = 2
    /\ cons_in[1].constraint_type = "Ge"
    /\ cons_in[2].constraint_type = "Eq"
    /\ cons_out.raised = ""
    /\ Len(cons_out.value) = 2

\* a stored constraint that is a Constraint object of a kind other than Eq
\* and Ge
HoldsUnsupported ==
    /\ self.constraints # None
    /\ \E i \in 1..Len(Items(self.constraints)) :
        /\ "constraint_type" \in DOMAIN Items(self.constraints)[i]
        /\ Items(self.constraints)[i].constraint_type \notin {"Eq", "Ge"}

\* C5 as stated: an SLSQP minimizer that holds a constraint of an unsupported
\* kind never reaches the solver.
C5_Original ==
    (cls = "SLSQP" /\ HoldsUnsupported) => (pc # "solver" /\ solver_calls = 0)

\* C5 amended: execute makes no check of the comparison kinds. An SLSQP
\* minimizer that holds a constraint of an unsupported kind raises only for a
\* keyword the options repeat, and otherwise calls the solver once with the
\* stored constraints as they are.
C5_NoKindCheckInExecute ==
    (cls = "SLSQP" /\ HoldsUnsupported) =>
        /\ pc = "raised" =>
            /\ error = "TypeError"
            /\ DOMAIN options
                 \cap {"method", "bounds", "jacobian", "constraints"} # {}
        /\ pc = "solver" =>
            /\ request.kwargs.constraints = self.constraints
            /\ solver_calls = 1
        /\ pc \in {"solver", "returned"} =>
            DOMAIN options
                 \cap {"method", "bounds", "jacobian", "constraints"} = {}

C5_Witness ==
    /\ cls = "SLSQP"
    /\ HoldsUnsupported
    /\ pc = "solver"
    /\ solver_calls = 1

\* C6 as stated: every path returns the same fields, the objective value
\* among them.
C6_Original ==
    pc = "returned" =>
        DOMAIN result = {"popt", "pcov", "infodic", "mesg", "ier", "value"}

\* C6 amended: the four general minimizers return popt, pcov, infodic, mesg,
\* ier and value; MINPACK returns popt, infodic, mesg and ier only.
C6_ResultFields ==
    pc = "returned" =>
        /\ cls \in General =>
            DOMAIN result = {"popt", "pcov", "infodic", "mesg", "ier", "value"}
        /\ cls = "MINPACK" =>
            DOMAIN result = {"popt", "infodic", "mesg", "ier"}

C6_Witness ==
    /\ pc = "returned"
    /\ cls = "MINPACK"
    /\ "value" \notin DOMAIN result

MethodOf(c) ==
    CASE c = "BFGS" -> "BFGS"
      [] c = "NelderMead" -> "Nelder-Mead"
      [] c = "SLSQP" -> "SLSQP"
      [] c = "LBFGSB" -> "L-BFGS-B"

DerivedBounds ==
    [i \in 1..Len(self.params) |-> <<self.params[i].min, self.params[i].max>>]

WrappedJacobian ==
    IF self.jacobian = None THEN None ELSE <<"wrapped_func", self.jacobian>>

ForwardedAlways ==
    /\ request.entry = "minimize"
    /\ request.args[1] = <<"wrapped_func", self.objective>>
    /\ request.kwargs.method = MethodOf(cls)
    /\ request.kwargs.tol =
            (IF "tol" \in DOMAIN options THEN options.tol ELSE "1e-9")
    /\ request.kwargs.constraints = self.constraints

\* C7 as stated: a minimizer that is not Bounded forwards no bounds and
\* NelderMead forwards no jacobian.
C7_Original ==
    (pc = "solver" /\ cls \in General) =>
        /\ ForwardedAlways
        /\ request.kwargs.bounds =
                (IF cls \in Bounded THEN DerivedBounds ELSE None)
        /\ request.kwargs.jac =
                (IF cls \in Gradient THEN WrappedJacobian ELSE None)

\* C7 amended: the method, the tolerance, the stored constraints and the
\* wrapped objective are forwarded as stated; a Bounded minimizer forwards
\* the derived bounds and any other the bounds option of the caller (None
\* without one); a Gradient minimizer forwards the wrapped stored jacobian
\* and NelderMead the jacobian option of the caller (None without one).
C7_Forwarding ==
    (pc = "solver" /\ cls \in General) =>
        /\ ForwardedAlways
        /\ request.kwargs.bounds =
                (IF cls \in Bounded THEN DerivedBounds
                 ELSE IF "bounds" \in DOMAIN options THEN options.bounds
                 ELSE None)
        /\ request.kwargs.jac =
                (IF cls \in Gradient THEN WrappedJacobian
                 ELSE IF "jacobian" \in DOMAIN options THEN options.jacobian
                 ELSE None)

C7_Witness ==
    /\ pc = "solver"
    /\ cls = "BFGS"
    /\ "bounds" \in DOMAIN options
    /\ request.kwargs.bounds = options.bounds

\* C8: execute changes no attribute of the minimizer, so every call sends
\* the solver the request that a first call with the same options sends.
C8_Idempotent ==
    /\ self = self0
    /\ pc = "solver" => request = execute(cls, self0, options).request

C8_Witness ==
    /\ pc = "solver"
    /\ executed
    /\ self.params[1].value # 0

\* C9: whatever the solver answers, converged or not, execute returns a
\* result with the solver's message and counts as they are, after exactly one
\* solver call; an execute that raises has not called the solver.
C9_NonConvergenceIsData ==
    /\ pc = "returned" =>
        /\ solver_calls = 1
        /\ error = ""
        /\ cls \in General =>
            /\ result.mesg = last_ans.message
            /\ result.ier = last_ans.nit
            /\ result.infodic.nfev = last_ans.nfev
        /\ cls = "MINPACK" =>
            /\ result.mesg = last_ans.mesg
            /\ result.ier = last_ans.ier
            /\ result.infodic = last_ans.infodic
    /\ pc = "raised" => (solver_calls = 0 /\ error = "TypeError")

C9_Witness ==
    /\ pc = "returned"
    /\ cls \in General
    /\ last_ans.success = "False"
    /\ result.mesg = "Maximum number of iterations has been exceeded."

\* C10: the constraints a general minimizer forwards to the solver are a
\* sequence, never None.
C10_ConstraintsNeverNone ==
    (pc = "solver" /\ request.entry = "minimize") =>
        request.kwargs.constraints # None

====
